---- MODULE Spec2Model ----
(***************************************************************************)
(* Model of the TU (typesafe units) header, tu/typesafe_units.h.           *)
(*                                                                         *)
(* The header is a library of pure functions; the "program" is a client    *)
(* that defines units, constructs a value and applies the library's        *)
(* operations to it one after the other.  A rejected operation is a        *)
(* compilation failure: it produces no result and the program ends there.  *)
(*                                                                         *)
(* TU_TYPE is modelled by exact extended rationals <<n, d>>: d > 0 and     *)
(* gcd(n, d) = 1 for a finite number, <<1,0>> and <<-1,0>> for the two     *)
(* infinities and <<0,0>> for NaN.  Rounding is not modelled.              *)
(*                                                                         *)
(* A std::ratio<N, D> type is modelled by the pair <<N, D>> as written:    *)
(* two std::ratio types are the same type iff the pairs are equal.         *)
(*                                                                         *)
(* Spec is the client program.  SpecFold is the recursion of               *)
(* binary_op_args and binary_op_args_num, one call per step.               *)
(***************************************************************************)
EXTENDS Integers, Sequences, FiniteSets, TLC

VARIABLES
    user,   \* the client's own Non_coherent_unit definition, or NoUnit
    a,      \* the client's current value
    last,   \* the operation applied last: operands, acceptance, result
    prev,   \* the operation applied before that one
    steps,  \* number of operations and definitions so far
    fold    \* an instantiation of binary_op_args or binary_op_args_num that
            \* the compiler is carrying out, or NoFold

vars == <<user, a, last, prev, steps, fold>>

\* ------------------------------------------------------------------ bounds

\* Longest program (definitions plus operations) that is explored.
MaxSteps == 2

\* Largest numerator and denominator of a base_value the client operates on
\* (keeps the model's integer arithmetic within 32 bits).
MaxMagnitude == 46340

\* ---------------------------------------------------- TU_TYPE arithmetic

Abs(n) == IF n < 0 THEN -n ELSE n

Sgn(n) == IF n < 0 THEN -1 ELSE IF n > 0 THEN 1 ELSE 0

RECURSIVE Gcd(_, _)
Gcd(m, n) == IF n = 0 THEN m ELSE Gcd(n, m % n)

\* The TU_TYPE value n/d (d = 0 gives an infinity or NaN).
Num(n, d) ==
    IF d = 0 THEN <<Sgn(n), 0>>
    ELSE LET g == Gcd(Abs(n), Abs(d))
         IN  <<(Sgn(d) * n) \div g, Abs(d) \div g>>

NaN == <<0, 0>>

IsFinite(x) == x[2] # 0

Small(x) == Abs(x[1]) <= MaxMagnitude /\ x[2] <= MaxMagnitude

F_neg(x) == <<-x[1], x[2]>>

F_add(x, y) ==
    IF x = NaN \/ y = NaN THEN NaN
    ELSE IF x[2] = 0 THEN (IF y[2] = 0 /\ y # x THEN NaN ELSE x)
    ELSE IF y[2] = 0 THEN y
    ELSE LET g == Gcd(x[2], y[2])
         IN  Num(x[1] * (y[2] \div g) + y[1] * (x[2] \div g), (x[2] \div g) * y[2])

F_sub(x, y) == F_add(x, F_neg(y))

F_mul(x, y) ==
    IF x = NaN \/ y = NaN THEN NaN
    ELSE IF x[2] = 0 \/ y[2] = 0
         THEN (IF x[1] = 0 \/ y[1] = 0 THEN NaN ELSE <<x[1] * y[1], 0>>)
    ELSE LET g1 == Gcd(Abs(x[1]), y[2])
             g2 == Gcd(Abs(y[1]), x[2])
         IN  <<(x[1] \div g1) * (y[1] \div g2), (x[2] \div g2) * (y[2] \div g1)>>

\* 1/y; 1/0 is +infinity (the sign of a zero is not modelled), 1/inf is 0.
F_inv(y) ==
    IF y = NaN THEN NaN
    ELSE IF y[2] = 0 THEN <<0, 1>>
    ELSE IF y[1] = 0 THEN <<1, 0>>
    ELSE <<Sgn(y[1]) * y[2], Abs(y[1])>>

F_div(x, y) == F_mul(x, F_inv(y))

F_less(x, y) ==
    /\ x # NaN /\ y # NaN
    /\ IF x[2] = 0 THEN x[1] = -1 /\ y # x
       ELSE IF y[2] = 0 THEN y[1] = 1
       ELSE x[1] * y[2] < y[1] * x[2]

\* 10^exp, computed as the header computes it.
RECURSIVE pow10(_)
pow10(exp) ==
    IF exp > 0 THEN F_mul(pow10(exp - 1), <<10, 1>>)
    ELSE IF exp < 0 THEN F_div(pow10(exp + 1), <<10, 1>>)
    ELSE <<1, 1>>

RECURSIVE IntPow(_, _)
IntPow(b, k) == IF k = 0 THEN 1 ELSE b * IntPow(b, k - 1)

\* Largest r in lo..hi with r * r <= n (lo * lo <= n is given).
RECURSIVE SqrtIn(_, _, _)
SqrtIn(n, lo, hi) ==
    IF lo >= hi THEN lo
    ELSE LET mid == (lo + hi + 1) \div 2
         IN  IF mid * mid <= n THEN SqrtIn(n, mid, hi) ELSE SqrtIn(n, lo, mid - 1)

\* The integer square root (46340 is the largest root of a 32-bit integer).
ISqrt(n) == SqrtIn(n, 0, IF n < 46340 THEN n ELSE 46340)

IsSquare(n) == n >= 0 /\ ISqrt(n) * ISqrt(n) = n

\* x^k for a finite x and an integer k.
F_ipow(x, k) ==
    IF k >= 0 THEN <<IntPow(x[1], k), IntPow(x[2], k)>>
    ELSE F_inv(<<IntPow(x[1], -k), IntPow(x[2], -k)>>)

\* std::pow(x, e) has a value in the model: e = n/d with d = 1, or d = 2 and
\* the result rational.
PowExact(x, e) ==
    \/ ~IsFinite(x) \/ e[1] = 0 \/ x[1] <= 0
    \/ e[2] = 1
    \/ e[2] = 2 /\ IsSquare(x[1]) /\ IsSquare(x[2])

\* std::pow(x, e) of <cmath>.
std_pow(x, e) ==
    IF e[1] = 0 /\ e[2] # 0 THEN <<1, 1>>
    ELSE IF x = NaN \/ e = NaN THEN NaN
    ELSE IF x[2] = 0
         THEN (IF e[1] < 0 THEN <<0, 1>>
               ELSE IF x[1] = -1 /\ e[2] = 1 /\ e[1] % 2 = 1 THEN <<-1, 0>>
               ELSE <<1, 0>>)
    ELSE IF x[1] = 0 THEN (IF e[1] > 0 THEN <<0, 1>> ELSE <<1, 0>>)
    ELSE IF e[2] = 1 THEN F_ipow(x, e[1])
    ELSE IF x[1] < 0 THEN NaN
    ELSE F_ipow(<<ISqrt(x[1]), ISqrt(x[2])>>, e[1])

\* --------------------------------------------------------------- std::ratio

\* std::ratio<N, D>::num and ::den: the reduced fraction, sign in the numerator.
ratio_num(R) == (Sgn(R[2]) * R[1]) \div Gcd(Abs(R[1]), Abs(R[2]))

ratio_den(R) == Abs(R[2]) \div Gcd(Abs(R[1]), Abs(R[2]))

\* The type std::ratio<n, d>::type.
\* std::ratio<n, d>::type without the reduction to lowest terms.
ratio_type_as_written(n, d) == <<n, d>>

ratio_type(n, d) == <<ratio_num(<<n, d>>), ratio_den(<<n, d>>)>>

\* fraction with numerator and denominator exchanged.
fraction_inverted(R) == F_div(<<ratio_den(R), 1>>, <<ratio_num(R), 1>>)

fraction(R) == F_div(<<ratio_num(R), 1>>, <<ratio_den(R), 1>>)

Plus(A, B) ==
    ratio_type(ratio_num(A) * ratio_den(B) + ratio_num(B) * ratio_den(A),
               ratio_den(A) * ratio_den(B))

\* Minus that subtracts A from B.
Minus_reversed(A, B) ==
    ratio_type(ratio_num(B) * ratio_den(A) - ratio_num(A) * ratio_den(B),
               ratio_den(A) * ratio_den(B))

Minus(A, B) ==
    ratio_type(ratio_num(A) * ratio_den(B) - ratio_num(B) * ratio_den(A),
               ratio_den(A) * ratio_den(B))

\* Multiply that adds.
Multiply_adds(A, B) ==
    ratio_type(ratio_num(A) * ratio_den(B) + ratio_num(B) * ratio_den(A),
               ratio_den(A) * ratio_den(B))

Multiply(A, B) ==
    ratio_type(ratio_num(A) * ratio_num(B), ratio_den(A) * ratio_den(B))

Op(op, A, B) ==
    CASE op = "Plus" -> Plus(A, B)
      [] op = "Minus" -> Minus(A, B)
      [] op = "Multiply" -> Multiply(A, B)

\* -------------------------------------------------------------------- units

\* A unit type: its Base (the std::ratio pack of Coherent_unit_base<p...>),
\* base_multiplier and base_adder.  fundament says that the type derives from
\* Unit_fundament; a type that does not (TU_TYPE) is no unit.
Coherent_unit(T, L, M, I, Theta, N, J) ==
    [Base            |-> <<T, L, M, I, Theta, N, J>>,
     base_multiplier |-> <<1, 1>>,
     base_adder      |-> <<0, 1>>,
     fundament       |-> TRUE]

\* The requires clause of Non_coherent_unit.
Non_coherent_unit_requires(multiplier, adder, Parent_unit) ==
    /\ Parent_unit.fundament
    /\ (multiplier # <<1, 1>> \/ adder # <<0, 1>>)

\* Non_coherent_unit that takes its own multiplier and adder for the
\* accumulated ones, whatever the parent's are.
Non_coherent_unit_own(multiplier, adder, Parent_unit) ==
    [Base            |-> Parent_unit.Base,
     base_multiplier |-> multiplier,
     base_adder      |-> F_mul(adder, multiplier),
     fundament       |-> TRUE]

Non_coherent_unit(multiplier, adder, Parent_unit) ==
    [Base            |-> Parent_unit.Base,
     base_multiplier |-> F_mul(Parent_unit.base_multiplier, multiplier),
     base_adder      |-> F_add(Parent_unit.base_adder, F_mul(adder, multiplier)),
     fundament       |-> TRUE]

r0 == <<0, 1>>
r1 == <<1, 1>>

second == Coherent_unit(r1, r0, r0, r0, r0, r0, r0)
metre == Coherent_unit(r0, r1, r0, r0, r0, r0, r0)
ampere == Coherent_unit(r0, r0, r0, r1, r0, r0, r0)
kelvin == Coherent_unit(r0, r0, r0, r0, r1, r0, r0)
scalar == Coherent_unit(r0, r0, r0, r0, r0, r0, r0)
hertz == Coherent_unit(<<-1, 1>>, r0, r0, r0, r0, r0, r0)
coulomb == Coherent_unit(r1, r0, r0, r1, r0, r0, r0)
radian == Coherent_unit(r0, r0, r0, r0, r0, r0, r0)
steradian == Coherent_unit(r0, r0, r0, r0, r0, r0, r0)
becquerel == Coherent_unit(<<-1, 1>>, r0, r0, r0, r0, r0, r0)
candela == Coherent_unit(r0, r0, r0, r0, r0, r0, r1)
lumen == Coherent_unit(r0, r0, r0, r0, r0, r0, r1)
gray == Coherent_unit(<<-2, 1>>, <<2, 1>>, r0, r0, r0, r0, r0)
sievert == Coherent_unit(<<-2, 1>>, <<2, 1>>, r0, r0, r0, r0, r0)

minute == Non_coherent_unit(<<60, 1>>, <<0, 1>>, second)
hour == Non_coherent_unit(<<60, 1>>, <<0, 1>>, minute)
degree_Celsius == Non_coherent_unit(<<1, 1>>, Num(27315, 100), kelvin)
\* degree_Fahrenheit with kelvin as its parent.
degree_Fahrenheit_of_kelvin == Non_coherent_unit(Num(10, 18), <<-32, 1>>, kelvin)

degree_Fahrenheit == Non_coherent_unit(Num(10, 18), <<-32, 1>>, degree_Celsius)

\* A type that is no unit, as a Parent_unit argument.
TU_TYPE == [Base |-> <<>>, base_multiplier |-> NaN, base_adder |-> NaN,
            fundament |-> FALSE]

NoUnit == [Base |-> <<>>, base_multiplier |-> NaN, base_adder |-> NaN,
           fundament |-> FALSE, name |-> "none"]

Named(name, U) ==
    [Base |-> U.Base, base_multiplier |-> U.base_multiplier,
     base_adder |-> U.base_adder, fundament |-> U.fundament, name |-> name]

\* The prefixes of enum struct prefix that the model uses.
micro == -6
milli == -3
no_prefix == 0
kilo == 3

\* ------------------------------------------------------------------- values

\* A value: cls is the class template it is an instance of; dim is the
\* std::ratio pack of its Coherent_unit_base base class; pf, U and value are
\* those of a Unit<pf, U> (and unused otherwise).
Value(cls, pf, U, value, dim, base_value) ==
    [cls |-> cls, pf |-> pf, U |-> U, value |-> value, dim |-> dim,
     base_value |-> base_value]

NoValue == Value("none", 0, NoUnit, NaN, <<>>, NaN)

\* A raw number v (a TU_TYPE, no unit class).
Raw(v) == Value("TU_TYPE", 0, NoUnit, NaN, <<>>, v)

\* Coherent_unit_base<p...>(TU_TYPE v)
Coherent_unit_base(p, v) == Value("Coherent_unit_base", 0, NoUnit, NaN, p, v)

\* base_value_of with the prefix applied to the unit's adder as well.
base_value_of_scaled_adder(pf, U, value) ==
    F_mul(F_add(F_mul(value, U.base_multiplier), U.base_adder), pow10(pf))

\* The base_value that Coherent_unit_base(const Un<pf, U>, TU_TYPE value)
\* initialises.
base_value_of(pf, U, value) ==
    F_add(F_mul(F_mul(value, U.base_multiplier), pow10(pf)), U.base_adder)

\* Unit<pf, U>(TU_TYPE v)
Unit(pf, U, v) == Value("Unit", pf, U, v, U.Base, base_value_of(pf, U, v))

\* The requires clause of the converting constructor without the comparison
\* of the two Base types.
Unit_from_requires_any(U, v) ==
    /\ U.fundament
    /\ v.cls \in {"Unit", "Coherent_unit", "Coherent_unit_base"}

\* The requires clause of Unit<pf, U>::Unit(const V& v).
Unit_from_requires(U, v) ==
    /\ U.fundament
    /\ v.cls \in {"Unit", "Coherent_unit", "Coherent_unit_base"}
    /\ v.dim = U.Base

\* The value that Unit<pf, U>::Unit(const V& v) computes from v.
value_from(pf, U, v) ==
    F_div(F_mul(F_sub(v.base_value, U.base_adder), pow10(-pf)), U.base_multiplier)

\* Unit<pf, U>(const V& v) that initialises its base class without the prefix.
Unit_from_unprefixed(pf, U, v) ==
    Value("Unit", pf, U, value_from(pf, U, v), U.Base,
          base_value_of(no_prefix, U, value_from(pf, U, v)))

\* Unit<pf, U>(const V& v)
Unit_from(pf, U, v) ==
    Value("Unit", pf, U, value_from(pf, U, v), U.Base,
          base_value_of(pf, U, value_from(pf, U, v)))

\* The requires clause of convert_to, and the deduction of its argument as a
\* Unit<from_prefix, From_unit>.
convert_to_requires(To_unit, from) ==
    /\ To_unit.fundament
    /\ from.cls = "Unit"
    /\ from.U.Base = To_unit.Base

\* convert_to that scales by 10^to_prefix instead of 10^(-to_prefix).
convert_to_wrong_sign(to_prefix, To_unit, from) ==
    Unit(to_prefix, To_unit,
         F_div(F_mul(F_sub(from.base_value, To_unit.base_adder), pow10(to_prefix)),
               To_unit.base_multiplier))

convert_to(to_prefix, To_unit, from) ==
    Unit(to_prefix, To_unit,
         F_div(F_mul(F_sub(from.base_value, To_unit.base_adder), pow10(-to_prefix)),
               To_unit.base_multiplier))

\* ---------------------------------------------------------------- operators

Instance(v) == v.cls \in {"Unit", "Coherent_unit", "Coherent_unit_base"}

\* create_coherent_unit takes a Coherent_unit_base of exactly seven ratios.
create_coherent_unit_accepts(p) == Len(p) = 7

create_coherent_unit(cb) ==
    Value("Coherent_unit", 0, NoUnit, NaN, cb.dim, cb.base_value)

\* operator+ and operator- with a parameter pack of its own for each
\* argument, as operator* and operator/ have: only the sizes are compared.
additive_accepts_sizes(l, r) ==
    /\ Instance(l) /\ Instance(r)
    /\ Len(l.dim) = Len(r.dim)
    /\ create_coherent_unit_accepts(l.dim)

\* operator+ and operator- for two Units of one and the same unit only.
additive_accepts_same_unit(l, r) ==
    /\ l.cls = "Unit" /\ r.cls = "Unit"
    /\ l.U = r.U
    /\ create_coherent_unit_accepts(l.dim)

\* operator+ and operator-: both arguments are deduced as the same
\* Coherent_unit_base<Args...>.
additive_accepts(l, r) ==
    /\ Instance(l) /\ Instance(r)
    /\ l.dim = r.dim
    /\ create_coherent_unit_accepts(l.dim)

\* operator+ on the prefixed value of a Unit instead of its base_value.
operator_plus_value(l, r) ==
    create_coherent_unit(Coherent_unit_base(l.dim,
        F_add(IF l.cls = "Unit" THEN l.value ELSE l.base_value,
              IF r.cls = "Unit" THEN r.value ELSE r.base_value)))

\* operator+ that counts the base_adder of the unit of r once only.
operator_plus_one_offset(l, r) ==
    create_coherent_unit(Coherent_unit_base(l.dim,
        F_sub(F_add(l.base_value, r.base_value),
              IF r.cls = "Unit" THEN r.U.base_adder ELSE <<0, 1>>)))

operator_plus(l, r) ==
    create_coherent_unit(Coherent_unit_base(l.dim, F_add(l.base_value, r.base_value)))

\* operator- with its operands exchanged.
operator_minus_reversed(l, r) ==
    create_coherent_unit(Coherent_unit_base(l.dim, F_sub(r.base_value, l.base_value)))

operator_minus(l, r) ==
    create_coherent_unit(Coherent_unit_base(l.dim, F_sub(l.base_value, r.base_value)))

\* binary_op_args: the packs l and r are consumed one ratio at a time, the
\* results are appended to lr.
RECURSIVE binary_op_args(_, _, _, _)
binary_op_args(l, r, lr, op) ==
    IF Len(l) = 1 /\ Len(r) = 1
    THEN Append(lr, Op(op, Head(l), Head(r)))
    ELSE binary_op_args(Tail(l), Tail(r), Append(lr, Op(op, Head(l), Head(r))), op)

\* operator* and operator/: the requires clause, and the return type exists
\* (create_coherent_unit at the end of the fold).
multiplicative_accepts(l, r) ==
    /\ Instance(l) /\ Instance(r)
    /\ Len(l.dim) >= 1 /\ Len(r.dim) >= 1
    /\ Len(l.dim) - 1 = Len(r.dim) - 1
    /\ create_coherent_unit_accepts(binary_op_args(l.dim, r.dim, <<>>, "Plus"))

\* operator* folding the exponents with Minus, as operator/ does.
operator_times_minus(l, r) ==
    Value("Coherent_unit", 0, NoUnit, NaN,
          binary_op_args(l.dim, r.dim, <<>>, "Minus"),
          F_mul(l.base_value, r.base_value))

operator_times(l, r) ==
    Value("Coherent_unit", 0, NoUnit, NaN,
          binary_op_args(l.dim, r.dim, <<>>, "Plus"),
          F_mul(l.base_value, r.base_value))

\* operator/ folding the exponents with Plus, as operator* does.
operator_div_plus(l, r) ==
    Value("Coherent_unit", 0, NoUnit, NaN,
          binary_op_args(l.dim, r.dim, <<>>, "Plus"),
          F_div(l.base_value, r.base_value))

operator_div(l, r) ==
    Value("Coherent_unit", 0, NoUnit, NaN,
          binary_op_args(l.dim, r.dim, <<>>, "Minus"),
          F_div(l.base_value, r.base_value))

RECURSIVE binary_op_args_num(_, _, _, _)
binary_op_args_num(u, r, u_op, op) ==
    IF Len(u) = 1
    THEN Append(u_op, Op(op, Head(u), r))
    ELSE binary_op_args_num(Tail(u), r, Append(u_op, Op(op, Head(u), r)), op)

pow_accepts(exp, u) ==
    /\ Instance(u)
    /\ Len(u.dim) >= 1
    /\ create_coherent_unit_accepts(binary_op_args_num(u.dim, exp, <<>>, "Multiply"))

pow(exp, u) ==
    Value("Coherent_unit", 0, NoUnit, NaN,
          binary_op_args_num(u.dim, exp, <<>>, "Multiply"),
          std_pow(u.base_value, fraction(exp)))

sqrt_accepts(u) == pow_accepts(<<1, 2>>, u)

\* sqrt that squares.
sqrt_squares(u) == pow(<<2, 1>>, u)

sqrt(u) == pow(<<1, 2>>, u)

\* -------------------------------------------- the fold, one call at a time

\* An instantiation of binary_op_args(l0, r0, <>, op) or of
\* binary_op_args_num(l0, r0, <>, op), l0 and r0 the arguments of the
\* outermost call: l, r and lr are the arguments of the
\* call that is instantiated next, n counts the calls instantiated so far, pc
\* is "call" while a call is pending, "returned" when the innermost call
\* returned create_coherent_unit's Coherent_unit, "rejected" when a call found
\* no viable function.
Fold(fn, op, first_l, first_r, l, r, lr, n, pc) ==
    [fn |-> fn, op |-> op, l0 |-> first_l, r0 |-> first_r, l |-> l, r |-> r,
     lr |-> lr, n |-> n, pc |-> pc]

NoFold == Fold("none", "none", <<>>, <<>>, <<>>, <<>>, <<>>, 0, "none")

\* One call of binary_op_args that puts decltype(op(lf(), rf())) in front of
\* lr_args... instead of behind it.
binary_op_args_call_prepends(f) ==
    IF Len(f.l) = 0 \/ Len(f.r) = 0 \/ Len(Tail(f.l)) # Len(Tail(f.r))
    THEN [f EXCEPT !.pc = "rejected"]
    ELSE LET lr == <<Op(f.op, Head(f.l), Head(f.r))>> \o f.lr
             g  == [f EXCEPT !.l = Tail(f.l), !.r = Tail(f.r), !.lr = lr,
                             !.n = f.n + 1]
         IN  IF Len(Tail(f.l)) = 0 /\ Len(Tail(f.r)) = 0
             THEN [g EXCEPT !.pc = IF create_coherent_unit_accepts(lr)
                                   THEN "returned" ELSE "rejected"]
             ELSE g

\* One call of binary_op_args: the deduction of lf and rf, the requires
\* clause, then the if constexpr.
binary_op_args_call(f) ==
    IF Len(f.l) = 0 \/ Len(f.r) = 0 \/ Len(Tail(f.l)) # Len(Tail(f.r))
    THEN [f EXCEPT !.pc = "rejected"]
    ELSE LET lr == Append(f.lr, Op(f.op, Head(f.l), Head(f.r)))
             g  == [f EXCEPT !.l = Tail(f.l), !.r = Tail(f.r), !.lr = lr,
                             !.n = f.n + 1]
         IN  IF Len(Tail(f.l)) = 0 /\ Len(Tail(f.r)) = 0
             THEN [g EXCEPT !.pc = IF create_coherent_unit_accepts(lr)
                                   THEN "returned" ELSE "rejected"]
             ELSE g

\* One call of binary_op_args_num: the deduction of U_first, then the if
\* constexpr.
binary_op_args_num_call(f) ==
    IF Len(f.l) = 0
    THEN [f EXCEPT !.pc = "rejected"]
    ELSE LET u_op == Append(f.lr, Op(f.op, Head(f.l), f.r))
             g    == [f EXCEPT !.l = Tail(f.l), !.lr = u_op, !.n = f.n + 1]
         IN  IF Len(Tail(f.l)) = 0
             THEN [g EXCEPT !.pc = IF create_coherent_unit_accepts(u_op)
                                   THEN "returned" ELSE "rejected"]
             ELSE g

\* ------------------------------------------------------------- comparisons

\* A std::partial_ordering, as the number it compares like against 0:
\* unordered is NaN.
less == <<-1, 1>>
equivalent == <<0, 1>>
greater == <<1, 1>>
unordered == NaN

\* The argument r of a member function of Coherent_unit_base<p...> that takes
\* a const Coherent_unit_base<p...>&: r derives from that class, or r is a
\* number and the constructor Coherent_unit_base(TU_TYPE) converts it.
\* The same with an explicit constructor Coherent_unit_base(TU_TYPE): no
\* number converts.
converts_to_base_explicit(p, r) == Instance(r) /\ r.dim = p

converts_to_base(p, r) ==
    \/ Instance(r) /\ r.dim = p
    \/ r.cls = "TU_TYPE"

\* l <=> r, l == r and the four relational operators that are rewritten to
\* <=> are those of Coherent_unit_base<p...>, the base class of l.
compare_accepts(l, r) == Instance(l) /\ converts_to_base(l.dim, r)

\* The three-way comparison of the prefixed value of a Unit in place of its
\* base_value.
operator_spaceship_value(l, r) ==
    LET x == IF l.cls = "Unit" THEN l.value ELSE l.base_value
        y == IF r.cls = "Unit" THEN r.value ELSE r.base_value
    IN  IF x = NaN \/ y = NaN THEN unordered
        ELSE IF F_less(x, y) THEN less
        ELSE IF F_less(y, x) THEN greater
        ELSE equivalent

\* The defaulted operator<=>: the Unit_fundament subobjects compare equal, then
\* the base_values are compared.
operator_spaceship(l, r) ==
    IF l.base_value = NaN \/ r.base_value = NaN THEN unordered
    ELSE IF F_less(l.base_value, r.base_value) THEN less
    ELSE IF F_less(r.base_value, l.base_value) THEN greater
    ELSE equivalent

\* The defaulted operator== that the defaulted operator<=> declares.
operator_equal(l, r) ==
    /\ l.base_value # NaN /\ r.base_value # NaN
    /\ l.base_value = r.base_value

\* The result of comparing: the ordering in base_value, the equality in value
\* (1 for true, 0 for false).
Comparison(ord, eq) ==
    Value("comparison", 0, NoUnit, IF eq THEN <<1, 1>> ELSE <<0, 1>>, <<>>, ord)

\* l < r, l <= r, l > r, l >= r are (l <=> r) < 0, <= 0, > 0, >= 0; l != r is
\* !(l == r).  c is the result of comparing l and r.
is_lt(c) == c.base_value = less
is_lteq(c) == c.base_value \in {less, equivalent}
is_gt(c) == c.base_value = greater
is_gteq(c) == c.base_value \in {greater, equivalent}
is_eq(c) == c.value = <<1, 1>>
is_neq(c) == c.value # <<1, 1>>

\* --------------------------------------------------------- is_scalar, unop

\* are_args_zero that looks at the first ratio only.
are_args_zero_first(p) ==
    IF ratio_num(Head(p)) # 0 THEN FALSE
    ELSE TRUE

RECURSIVE are_args_zero(_)
are_args_zero(p) ==
    IF ratio_num(Head(p)) # 0 THEN FALSE
    ELSE IF Len(Tail(p)) > 0 THEN are_args_zero(Tail(p))
    ELSE TRUE

\* is_scalar() is a member of Coherent_unit_base<p...>; are_args_zero takes at
\* least one ratio.
is_scalar_accepts(v) == Instance(v) /\ Len(v.dim) >= 1

is_scalar(v) == are_args_zero(v.dim)

\* A bool.
Bool(b) == Value("bool", 0, NoUnit, NaN, <<>>, IF b THEN <<1, 1>> ELSE <<0, 1>>)

\* The unary functions TU_TYPE(*)(TU_TYPE) the client passes to unop: the
\* lambda that adds 1.
Unary_op_func == {"lambda"}

Apply(op, x) ==
    CASE op = "lambda" -> F_add(x, <<1, 1>>)

\* The requires clause of the overload of unop for Unit<pf, U>, were it the
\* only overload.
unop_accepts_unit(u) == u.cls = "Unit" /\ is_scalar_accepts(u) /\ is_scalar(u)

\* The requires clauses of the two overloads of unop.
unop_accepts(u) == is_scalar_accepts(u) /\ is_scalar(u)

\* unop on the prefixed value of a Unit in place of its base_value.
unop_value(op, u) ==
    IF u.cls = "Unit"
    THEN create_coherent_unit(Coherent_unit_base(u.U.Base, Apply(op, u.value)))
    ELSE Value(u.cls, 0, NoUnit, NaN, u.dim, Apply(op, u.base_value))

\* unop<op>(u): the overload for Unit<pf, U> is the more specialised one; the
\* other one returns a value of the type of its argument.
unop(op, u) ==
    IF u.cls = "Unit"
    THEN create_coherent_unit(Coherent_unit_base(u.U.Base, Apply(op, u.base_value)))
    ELSE Value(u.cls, 0, NoUnit, NaN, u.dim, Apply(op, u.base_value))

\* ------------------------------------------------------------------- inputs

\* The unit types the client names (the client's own definition is "user").
UnitOf(name) ==
    CASE name = "second" -> Named(name, second)
      [] name = "minute" -> Named(name, minute)
      [] name = "kelvin" -> Named(name, kelvin)
      [] name = "degree_Celsius" -> Named(name, degree_Celsius)
      [] name = "degree_Fahrenheit" -> Named(name, degree_Fahrenheit)
      [] name = "ampere" -> Named(name, ampere)
      [] name = "radian" -> Named(name, radian)
      [] name = "TU_TYPE" -> Named(name, TU_TYPE)
      [] name = "user" -> user

\* The raw numbers the client constructs values from.
RawValues == {<<0, 1>>, <<10, 1>>, <<5000, 1>>}

\* The first value of the client: <<prefix, unit, raw number>>.
InitValues ==
    {<<milli, "second", <<10, 1>>>>, <<milli, "second", <<5000, 1>>>>,
     <<kilo, "second", <<10, 1>>>>, <<no_prefix, "minute", <<10, 1>>>>,
     <<milli, "kelvin", <<5000, 1>>>>, <<milli, "degree_Celsius", <<5000, 1>>>>,
     <<milli, "degree_Celsius", <<10, 1>>>>,
     <<no_prefix, "degree_Celsius", <<0, 1>>>>,
     <<no_prefix, "degree_Fahrenheit", <<10, 1>>>>,
     <<milli, "radian", <<5000, 1>>>>}

\* The targets <<prefix, unit>> of convert_to and of the converting constructor.
Targets ==
    {<<milli, "second">>, <<no_prefix, "minute">>,
     <<milli, "kelvin">>, <<no_prefix, "degree_Celsius">>,
     <<no_prefix, "degree_Fahrenheit">>, <<no_prefix, "radian">>,
     <<no_prefix, "user">>}

\* The right-hand operands of the binary operators, besides the client's
\* current value itself.
Operands ==
    {Unit(micro, Named("second", second), <<20000, 1>>),
     Unit(milli, Named("ampere", ampere), <<20, 1>>),
     create_coherent_unit(Coherent_unit_base(scalar.Base, <<2, 1>>)),
     Coherent_unit_base(<<<<2, 2>>, r0, r0, r0, r0, r0, r0>>, <<3, 1>>)}

\* One more right-hand operand of + and -.
Summands == {Unit(no_prefix, Named("degree_Celsius", degree_Celsius), <<20, 1>>)}

\* The exponents of pow.
Exponents == {<<2, 1>>, <<2, 4>>, <<-1, 1>>, <<0, 1>>}

\* The raw numbers the client compares and combines its value with; +, -, *
\* and / take no raw number whatever the other operand is, so the client
\* tries them on its first value.
RawOperands == {Raw(<<3, 1>>)}

\* The values the client asks is_scalar() of, besides its current value;
\* is_scalar() is static, so the client asks it of them before anything else.
ScalarCases ==
    {Coherent_unit_base(<<r1, <<2, 1>>>>, <<0, 1>>),
     Coherent_unit_base(<<r0, <<2, 1>>>>, <<0, 1>>),
     Coherent_unit_base(<<r1>>, <<0, 1>>),
     Coherent_unit_base(<<r0, r0>>, <<0, 1>>),
     Coherent_unit_base(<<r0>>, <<0, 1>>),
     Coherent_unit_base(<<<<0, 5>>, r0, r0, r0, r0, r0, <<0, -2>>>>, <<0, 1>>)}

\* The client's Non_coherent_unit definitions: multiplier, adder, parent.
Multipliers == {<<0, 1>>, <<1, 1>>, <<60, 1>>}
Adders == {<<0, 1>>, <<5, 1>>}
Parents == {"minute", "TU_TYPE"}

\* --------------------------------------------------------------- the client

OpRec(op, pf, U, exp, l, r, ok, res) ==
    [op |-> op, pf |-> pf, U |-> U, exp |-> exp, l |-> l, r |-> r, ok |-> ok,
     res |-> res]

NoOp == OpRec("none", 0, NoUnit, r0, NoValue, NoValue, TRUE, NoValue)

\* The client has constructed its first value, a = Unit<pf, U>(v), from a raw
\* number.
Init ==
    /\ user = NoUnit
    /\ \E t \in InitValues :
           LET pf == t[1]  name == t[2]  v == t[3]
           IN  /\ v \in RawValues
               /\ a = Unit(pf, Named(name, UnitOf(name)), v)
               /\ Small(a.base_value)
               /\ last = OpRec("Unit", pf, Named(name, UnitOf(name)), r0, Raw(v),
                               NoValue, TRUE, a)
    /\ prev = NoOp
    /\ steps = 0
    /\ fold = NoFold

\* The operations that return no value of a unit class; the client ends with
\* such a query, which changes neither a nor user.
Queries == {"<=>", "is_scalar"}

\* A rejected operation does not compile: nothing follows it.
Running ==
    /\ steps < MaxSteps /\ last.ok /\ Small(a.base_value)
    /\ last.op \notin Queries

\* The operation rec was applied: a becomes its result when it was accepted.
Applied(rec) ==
    /\ last' = rec
    /\ prev' = last
    /\ a' = IF rec.ok /\ Instance(rec.res) THEN rec.res ELSE a
    /\ steps' = steps + 1
    /\ UNCHANGED fold

\* using user = Non_coherent_unit<multiplier, adder, Parent_unit>; the client
\* defines its unit before it operates on values.
DefineUnit(multiplier, adder, parent) ==
    /\ Running
    /\ user = NoUnit /\ steps = 0
    /\ LET P  == UnitOf(parent)
           ok == Non_coherent_unit_requires(multiplier, adder, P)
       IN  /\ user' = IF ok THEN Named("user", Non_coherent_unit(multiplier, adder, P))
                      ELSE user
           /\ Applied(OpRec("Non_coherent_unit", 0, P, r0,
                            Coherent_unit_base(<<>>, multiplier),
                            Coherent_unit_base(<<>>, adder), ok, NoValue))

\* convert_to<pf, U>(a)
ConvertTo(pf, name) ==
    /\ Running
    /\ LET U  == UnitOf(name)
           ok == convert_to_requires(U, a)
       IN  Applied(OpRec("convert_to", pf, U, r0, a, NoValue, ok,
                         IF ok THEN convert_to(pf, U, a) ELSE NoValue))
    /\ UNCHANGED user

\* Unit<pf, U>(a)
UnitFrom(pf, name) ==
    /\ Running
    /\ LET U  == UnitOf(name)
           ok == Unit_from_requires(U, a)
       IN  Applied(OpRec("Unit", pf, U, r0, a, NoValue, ok,
                         IF ok THEN Unit_from(pf, U, a) ELSE NoValue))
    /\ UNCHANGED user

\* a + r
Add(r) ==
    /\ Running
    /\ r \in RawOperands => steps = 0
    /\ LET ok == additive_accepts(a, r)
       IN  Applied(OpRec("+", 0, NoUnit, r0, a, r, ok,
                         IF ok THEN operator_plus(a, r) ELSE NoValue))
    /\ UNCHANGED user

\* a - r
Subtract(r) ==
    /\ Running
    /\ r \in RawOperands => steps = 0
    /\ LET ok == additive_accepts(a, r)
       IN  Applied(OpRec("-", 0, NoUnit, r0, a, r, ok,
                         IF ok THEN operator_minus(a, r) ELSE NoValue))
    /\ UNCHANGED user

\* a * r
Times(r) ==
    /\ Running
    /\ r \in RawOperands => steps = 0
    /\ LET ok == multiplicative_accepts(a, r)
       IN  Applied(OpRec("*", 0, NoUnit, r0, a, r, ok,
                         IF ok THEN operator_times(a, r) ELSE NoValue))
    /\ UNCHANGED user

\* a / r
Divide(r) ==
    /\ Running
    /\ r \in RawOperands => steps = 0
    /\ LET ok == multiplicative_accepts(a, r)
       IN  Applied(OpRec("/", 0, NoUnit, r0, a, r, ok,
                         IF ok THEN operator_div(a, r) ELSE NoValue))
    /\ UNCHANGED user

\* pow<exp>(a)
Pow(exp) ==
    /\ Running
    /\ PowExact(a.base_value, fraction(exp))
    /\ LET ok == pow_accepts(exp, a)
       IN  Applied(OpRec("pow", 0, NoUnit, exp, a, NoValue, ok,
                         IF ok THEN pow(exp, a) ELSE NoValue))
    /\ UNCHANGED user

\* sqrt(a)
Sqrt ==
    /\ Running
    /\ PowExact(a.base_value, <<1, 2>>)
    /\ LET ok == sqrt_accepts(a)
       IN  Applied(OpRec("sqrt", 0, NoUnit, <<1, 2>>, a, NoValue, ok,
                         IF ok THEN sqrt(a) ELSE NoValue))
    /\ UNCHANGED user

\* a <=> r and a == r, from which the six comparison operators follow.
Compare(r) ==
    /\ Running
    /\ LET ok == compare_accepts(a, r)
       IN  Applied(OpRec("<=>", 0, NoUnit, r0, a, r, ok,
                         IF ok THEN Comparison(operator_spaceship(a, r),
                                               operator_equal(a, r))
                         ELSE NoValue))
    /\ UNCHANGED user

\* v.is_scalar()
IsScalar(v) ==
    /\ Running
    /\ v \in ScalarCases => steps = 0
    /\ LET ok == is_scalar_accepts(v)
       IN  Applied(OpRec("is_scalar", 0, NoUnit, r0, v, NoValue, ok,
                         IF ok THEN Bool(is_scalar(v)) ELSE NoValue))
    /\ UNCHANGED user

\* unop<op>(a)
Unop(op) ==
    /\ Running
    /\ LET ok == unop_accepts(a)
       IN  Applied(OpRec(op, 0, NoUnit, r0, a, NoValue, ok,
                         IF ok THEN unop(op, a) ELSE NoValue))
    /\ UNCHANGED user

Next ==
    \/ \E m \in Multipliers, c \in Adders, p \in Parents : DefineUnit(m, c, p)
    \/ \E t \in Targets : ConvertTo(t[1], t[2])
    \/ \E t \in Targets : UnitFrom(t[1], t[2])
    \/ \E r \in Operands \cup Summands \cup RawOperands \cup {a} : Add(r)
    \/ \E r \in Operands \cup Summands \cup RawOperands \cup {a} : Subtract(r)
    \/ \E r \in Operands \cup RawOperands \cup {a} : Times(r)
    \/ \E r \in Operands \cup RawOperands \cup {a} : Divide(r)
    \/ \E e \in Exponents : Pow(e)
    \/ Sqrt
    \/ \E r \in Operands \cup RawOperands \cup {a} : Compare(r)
    \/ \E v \in ScalarCases \cup {a} : IsScalar(v)
    \/ \E op \in Unary_op_func : Unop(op)

Spec == Init /\ [][Next]_vars

\* ------------------------------------------------- arithmetic of the claims

\* The rationals A and B (pairs as written) are equal.
RatEq(A, B) == A[1] * B[2] = B[1] * A[2]

\* C = A + B, C = A - B, C = A * B as rationals.
RatSum(A, B, C) == C[1] * (A[2] * B[2]) = (A[1] * B[2] + B[1] * A[2]) * C[2]
RatDiff(A, B, C) == C[1] * (A[2] * B[2]) = (A[1] * B[2] - B[1] * A[2]) * C[2]
RatProd(A, B, C) == C[1] * (A[2] * B[2]) = (A[1] * B[1]) * C[2]

\* R is in lowest terms with a positive denominator.
Reduced(R) == R[2] > 0 /\ \A k \in 2..R[2] : ~(R[1] % k = 0 /\ R[2] % k = 0)

\* The dimension vectors p and q have an exponent that differs.
DimDiffer(p, q) ==
    \/ Len(p) # Len(q)
    \/ \E i \in 1..Len(p) : ~RatEq(p[i], q[i])

SevenExponents(v) == Instance(v) /\ Len(v.dim) = 7

\* 10^k.
Ten(k) == IF k >= 0 THEN <<IntPow(10, k), 1>> ELSE <<1, IntPow(10, -k)>>

\* y = x^(N/D) for the exponent N/D as written, D > 0: by integer powers.
PowIs(x, E, y) ==
    IF E[1] = 0 THEN y = <<1, 1>>
    ELSE IF ~IsFinite(x) THEN TRUE
    ELSE IF x[1] = 0 THEN y = (IF E[1] > 0 THEN <<0, 1>> ELSE <<1, 0>>)
    ELSE IF x[1] < 0
         THEN IF E[1] % E[2] = 0 THEN y = F_ipow(x, E[1] \div E[2]) ELSE y = NaN
    ELSE /\ IsFinite(y) /\ y[1] > 0
         /\ F_ipow(y, E[2]) = F_ipow(x, E[1])

\* ------------------------------------------------------------------- claims

\* C1: operator + and operator - are rejected, and no result is produced,
\* whenever the dimension vectors of the two operands differ in an exponent,
\* whatever the operands' classes and prefixes and wherever in a sequence of
\* operations the sum or difference stands.
C1_MismatchRejected ==
    (last.op \in {"+", "-"} /\ DimDiffer(last.l.dim, last.r.dim))
        => (~last.ok /\ last.res = NoValue /\ a = last.l)

\* The difference of a product and a Unit of another dimension.
C1_Witness ==
    /\ last.op = "-" /\ steps = 2
    /\ last.l.cls = "Coherent_unit" /\ last.r.cls = "Unit"
    /\ Len(last.l.dim) = 7 /\ Len(last.r.dim) = 7
    /\ DimDiffer(last.l.dim, last.r.dim)
    /\ ~last.ok

\* C2: for operands l and r with identical dimension vectors, l + r and l - r
\* are accepted and return a Coherent_unit of that dimension vector whose
\* base_value is l.base_value + r.base_value, respectively
\* l.base_value - r.base_value.
C2_SumDifference ==
    (last.op \in {"+", "-"} /\ SevenExponents(last.l) /\ SevenExponents(last.r)
       /\ last.l.dim = last.r.dim)
        => /\ last.ok
           /\ last.res.cls = "Coherent_unit"
           /\ last.res.dim = last.l.dim
           /\ last.res.base_value =
                  IF last.op = "+"
                  THEN F_add(last.l.base_value, last.r.base_value)
                  ELSE F_sub(last.l.base_value, last.r.base_value)
           /\ a = last.res

\* 10 ms + 20000 us has base_value 0.03.
C2_Witness ==
    /\ last.op = "+" /\ last.ok
    /\ last.l.pf = milli /\ last.l.value = <<10, 1>> /\ last.l.U.name = "second"
    /\ last.r.pf = micro /\ last.r.value = <<20000, 1>>
    /\ last.res.base_value = <<3, 100>>

\* C3: for seven-exponent operands l and r, l * r is accepted and returns a
\* Coherent_unit whose i-th exponent is l's i-th exponent plus r's, in lowest
\* terms, and whose base_value is l.base_value * r.base_value; multiplying by
\* a scalar leaves every exponent what it was.
C3_Product ==
    (last.op = "*" /\ SevenExponents(last.l) /\ SevenExponents(last.r))
        => /\ last.ok
           /\ last.res.cls = "Coherent_unit"
           /\ Len(last.res.dim) = 7
           /\ \A i \in 1..7 :
                  /\ RatSum(last.l.dim[i], last.r.dim[i], last.res.dim[i])
                  /\ Reduced(last.res.dim[i])
           /\ last.res.base_value = F_mul(last.l.base_value, last.r.base_value)
           /\ (\A i \in 1..7 : last.r.dim[i][1] = 0)
                  => ~DimDiffer(last.res.dim, last.l.dim)

\* 10 ms * 20 mA is a value of dimension time^1 current^1 with base_value 2e-4.
C3_Witness ==
    /\ last.op = "*" /\ last.ok
    /\ last.l.pf = milli /\ last.l.value = <<10, 1>> /\ last.l.U.name = "second"
    /\ last.r.U.name = "ampere"
    /\ last.res.dim = <<r1, r0, r0, r1, r0, r0, r0>>
    /\ last.res.base_value = <<1, 5000>>

\* C4: for seven-exponent operands l and r, l / r is accepted and returns a
\* Coherent_unit whose i-th exponent is l's i-th exponent minus r's, in lowest
\* terms, and whose base_value is l.base_value / r.base_value.
C4_Quotient ==
    (last.op = "/" /\ SevenExponents(last.l) /\ SevenExponents(last.r))
        => /\ last.ok
           /\ last.res.cls = "Coherent_unit"
           /\ Len(last.res.dim) = 7
           /\ \A i \in 1..7 :
                  /\ RatDiff(last.l.dim[i], last.r.dim[i], last.res.dim[i])
                  /\ Reduced(last.res.dim[i])
           /\ last.res.base_value = F_div(last.l.base_value, last.r.base_value)

\* 10 ms / 20 mA is a value of dimension time^1 current^-1 with base_value 1/2.
C4_Witness ==
    /\ last.op = "/" /\ last.ok
    /\ last.l.pf = milli /\ last.l.value = <<10, 1>> /\ last.l.U.name = "second"
    /\ last.r.U.name = "ampere"
    /\ last.res.dim = <<r1, r0, r0, <<-1, 1>>, r0, r0, r0>>
    /\ last.res.base_value = <<1, 2>>

\* C5: for a seven-exponent operand A and an exponent r = n/d, pow<r>(A) is
\* accepted and returns a Coherent_unit whose i-th exponent is A's i-th
\* exponent times r, in lowest terms, and whose base_value is A.base_value
\* raised to n/d.
C5_Power ==
    (last.op = "pow" /\ SevenExponents(last.l))
        => /\ last.ok
           /\ last.res.cls = "Coherent_unit"
           /\ Len(last.res.dim) = 7
           /\ \A i \in 1..7 :
                  /\ RatProd(last.l.dim[i], last.exp, last.res.dim[i])
                  /\ Reduced(last.res.dim[i])
           /\ PowIs(last.l.base_value, last.exp, last.res.base_value)

\* pow<2/4> of a value of dimension time^2 whose base_value is 1/10000: a
\* value of dimension time^1 with base_value 1/100.
C5_Witness ==
    /\ last.op = "pow" /\ last.ok /\ last.exp = <<2, 4>>
    /\ last.l.dim[1] = <<2, 1>> /\ last.l.base_value = <<1, 10000>>
    /\ last.res.dim[1] = <<1, 1>> /\ last.res.base_value = <<1, 100>>

\* The value of a Unit<pf, U> that stands for the base value b.
ValueFor(pf, U, b) ==
    F_div(F_mul(F_sub(b, U.base_adder), Ten(-pf)), U.base_multiplier)

\* The base value that the value v of a Unit<pf, U> stands for.
BaseFor(pf, U, v) ==
    F_add(F_mul(F_mul(v, U.base_multiplier), Ten(pf)), U.base_adder)

\* C6: Unit<prefix, U> constructed from a raw number v has value = v and
\* base_value = v * U.base_multiplier * 10^prefix + U.base_adder, for coherent
\* and non-coherent U; convert_to constructs its result in this way from the
\* number it computes.
C6_RawConstruction ==
    /\ (last.op = "Unit" /\ last.l.cls = "TU_TYPE")
           => /\ last.ok
              /\ last.res.cls = "Unit"
              /\ last.res.pf = last.pf /\ last.res.U = last.U
              /\ last.res.value = last.l.base_value
              /\ last.res.base_value = BaseFor(last.pf, last.U, last.l.base_value)
              /\ a = last.res
    /\ (last.op = "convert_to" /\ last.ok)
           => last.res.base_value = BaseFor(last.pf, last.U, last.res.value)

\* Unit<milli, degree_Celsius>(5000) has base_value 5 + 273.15.
C6_Witness ==
    /\ last.op = "Unit" /\ last.l = Raw(<<5000, 1>>)
    /\ last.pf = milli /\ last.U.name = "degree_Celsius"
    /\ a.value = <<5000, 1>>
    /\ a.base_value = <<5563, 20>>

\* C7: for a Unit source and a target (to_prefix, To_unit) of the source's
\* dimensional root, convert_to<to_prefix, To_unit>(source) is accepted and
\* returns a Unit<to_prefix, To_unit> whose value is
\* (source.base_value - To_unit.base_adder) * 10^(-to_prefix)
\*     / To_unit.base_multiplier.
C7_ConvertTo ==
    (last.op = "convert_to" /\ last.l.cls = "Unit" /\ last.U.fundament
       /\ last.U.Base = last.l.U.Base)
        => /\ last.ok
           /\ last.res.cls = "Unit"
           /\ last.res.pf = last.pf /\ last.res.U = last.U
           /\ last.res.value = ValueFor(last.pf, last.U, last.l.base_value)
           /\ a = last.res

\* 5000 ms converts to 1/12 minute.
C7_Witness ==
    /\ last.op = "convert_to" /\ last.ok
    /\ last.l.pf = milli /\ last.l.U.name = "second" /\ last.l.value = <<5000, 1>>
    /\ last.pf = no_prefix /\ last.U.name = "minute"
    /\ last.res.value = <<1, 12>>

\* C8: convert_to<P, To>(from) and the converting constructor Unit<P, U>(v)
\* are rejected whenever the Base of the target unit differs from the
\* dimension vector of the source.
C8_ConversionRejected ==
    (last.op \in {"convert_to", "Unit"} /\ Instance(last.l)
       /\ DimDiffer(last.U.Base, last.l.dim))
        => (~last.ok /\ last.res = NoValue /\ a = last.l)

\* The product of a second value and an ampere value, assigned to a Unit of
\* second.
C8_Witness ==
    /\ last.op = "Unit" /\ ~last.ok
    /\ prev.op = "*" /\ prev.l.U.name = "second" /\ prev.r.U.name = "ampere"
    /\ last.l = prev.res
    /\ last.U.name = "second"

\* C9: every convert_to among (prefix, unit) pairs of one dimensional root
\* preserves base_value, and a conversion that returns to the prefix and unit
\* of the value the chain started from reproduces the value.
C9_RoundTrip ==
    /\ (last.op = "convert_to" /\ last.ok)
           => last.res.base_value = last.l.base_value
    /\ (last.op = "convert_to" /\ last.ok /\ prev.op = "convert_to"
          /\ last.pf = prev.l.pf /\ last.U = prev.l.U)
           => last.res.value = prev.l.value

\* C10: Unit<prefix, U> constructed from a compatible value v2 has
\* value = (v2.base_value - U.base_adder) * 10^(-prefix) / U.base_multiplier
\* and a base_value equal to v2.base_value.
C10_ConvertingConstructor ==
    (last.op = "Unit" /\ Instance(last.l) /\ last.U.fundament
       /\ last.U.Base = last.l.dim)
        => /\ last.ok
           /\ last.res.cls = "Unit"
           /\ last.res.pf = last.pf /\ last.res.U = last.U
           /\ last.res.value = ValueFor(last.pf, last.U, last.l.base_value)
           /\ last.res.base_value = last.l.base_value

\* The affine transform of one link of a chain of units: the value in the
\* parent unit of the value v of a unit defined with (multiplier, adder).
LinkUp(v, multiplier, adder) == F_add(F_mul(v, multiplier), adder)

\* The links <<multiplier, adder>> of a predefined unit, from the unit up to
\* its coherent ancestor.
ChainOf(name) ==
    CASE name = "minute" -> <<<<<<60, 1>>, <<0, 1>>>>>>
      [] OTHER -> <<>>

\* The value v carried up the links, one link after the other.
RECURSIVE ComposeUp(_, _)
ComposeUp(v, links) ==
    IF links = <<>> THEN v
    ELSE ComposeUp(LinkUp(v, Head(links)[1], Head(links)[2]), Tail(links))

\* C11: an accepted definition Non_coherent_unit<multiplier, adder, Parent>
\* has base_multiplier = Parent's base_multiplier * multiplier and
\* base_adder = Parent's base_adder + adder * multiplier, and the Base of its
\* parent; the coherent units have base_multiplier 1 and base_adder 0, and
\* along hour -> minute -> second, hour has base_multiplier 3600; along
\* degree_Fahrenheit -> degree_Celsius -> kelvin, degree_Fahrenheit has
\* base_multiplier 1/1.8 and base_adder 273.15 - 32/1.8.
C11_AffineAccumulation ==
    /\ (last.op = "Non_coherent_unit" /\ last.ok)
           => /\ user.base_multiplier =
                     F_mul(last.U.base_multiplier, last.l.base_value)
              /\ user.base_adder =
                     F_add(last.U.base_adder,
                           F_mul(last.r.base_value, last.l.base_value))
              /\ user.Base = last.U.Base
    /\ \A U \in {second, metre, ampere, kelvin, scalar, hertz, coulomb} :
           U.base_multiplier = <<1, 1>> /\ U.base_adder = <<0, 1>>
    /\ minute.base_multiplier = <<60, 1>> /\ minute.base_adder = <<0, 1>>
    /\ hour.base_multiplier = <<3600, 1>> /\ hour.base_adder = <<0, 1>>
    /\ degree_Celsius.base_multiplier = <<1, 1>>
    /\ degree_Celsius.base_adder = <<5463, 20>>
    /\ degree_Fahrenheit.base_multiplier = <<5, 9>>
    /\ 180 * degree_Fahrenheit.base_adder[1]
           = (49167 - 3200) * degree_Fahrenheit.base_adder[2]

\* Non_coherent_unit<60, 5, minute>: base_multiplier 3600, base_adder 300.
C11_Witness ==
    /\ last.op = "Non_coherent_unit" /\ last.ok
    /\ last.U.name = "minute"
    /\ last.l.base_value = <<60, 1>> /\ last.r.base_value = <<5, 1>>
    /\ user.base_multiplier = <<3600, 1>>
    /\ user.base_adder = <<300, 1>>

\* C12: for a unit defined with a multiplier other than 0, the accumulated map
\* v * base_multiplier + base_adder equals the composition, link by link up to
\* the coherent ancestor, of the transforms v_parent = v_self * multiplier +
\* adder of the unit and of its ancestors.
C12_Composition ==
    (last.op = "Non_coherent_unit" /\ last.ok /\ last.l.base_value # <<0, 1>>)
        => \A v \in RawValues :
               F_add(F_mul(v, user.base_multiplier), user.base_adder)
                   = ComposeUp(v, <<<<last.l.base_value, last.r.base_value>>>>
                                      \o ChainOf(last.U.name))

\* C13: a definition Non_coherent_unit<0, adder, Parent> is rejected, whatever
\* the adder and the parent, and no unit has base_multiplier 0.
C13_ZeroMultiplierRejected ==
    /\ (last.op = "Non_coherent_unit" /\ last.l.base_value = <<0, 1>>)
           => ~last.ok
    /\ user.fundament => user.base_multiplier # <<0, 1>>

\* Every exponent of the dimension vector p has numerator 0.
AllZero(p) == \A i \in 1..Len(p) : p[i][1] = 0

\* x = y as numbers (a NaN equals nothing).
NumEq(x, y) == x # NaN /\ y # NaN /\ x = y

\* C14: for two values of one dimension vector, whatever their prefixes and
\* units, each of <, <=, >, >=, ==, != is accepted and returns what the same
\* comparison of the two base_values returns; a value compares equal to
\* itself (a NaN base_value, like the number, equals nothing).
C14_Comparison ==
    (last.op = "<=>" /\ SevenExponents(last.l) /\ SevenExponents(last.r)
       /\ last.l.dim = last.r.dim)
        => LET x == last.l.base_value
               y == last.r.base_value
           IN  /\ last.ok
               /\ is_lt(last.res) <=> F_less(x, y)
               /\ is_lteq(last.res) <=> (F_less(x, y) \/ NumEq(x, y))
               /\ is_gt(last.res) <=> F_less(y, x)
               /\ is_gteq(last.res) <=> (F_less(y, x) \/ NumEq(x, y))
               /\ is_eq(last.res) <=> NumEq(x, y)
               /\ is_neq(last.res) <=> ~NumEq(x, y)
               /\ (last.r = last.l /\ x # NaN)
                      => (is_eq(last.res) /\ is_lteq(last.res) /\ is_gteq(last.res))

\* 10 ks compared with 20000 us: the value 10 is the smaller one, the
\* base_value 10000 is the greater one, and the comparison says greater.
C14_Witness ==
    /\ last.op = "<=>" /\ last.ok
    /\ last.l.pf = kilo /\ last.l.U.name = "second" /\ last.l.value = <<10, 1>>
    /\ last.r.pf = micro /\ last.r.value = <<20000, 1>>
    /\ is_gt(last.res) /\ is_gteq(last.res) /\ is_neq(last.res)
    /\ ~is_lt(last.res) /\ ~is_lteq(last.res) /\ ~is_eq(last.res)

\* C15: a comparison is rejected unless both operands carry the same seven
\* exponents.
C15_ComparisonRejected ==
    (last.op = "<=>"
       /\ ~(SevenExponents(last.l) /\ SevenExponents(last.r)
              /\ ~DimDiffer(last.l.dim, last.r.dim)))
        => (~last.ok /\ last.res = NoValue)

\* C16: is_scalar() of a dimension vector is true iff every exponent has
\* numerator 0, whatever the denominators and wherever a nonzero exponent
\* stands.
C16_IsScalar ==
    (last.op = "is_scalar" /\ Instance(last.l) /\ Len(last.l.dim) >= 1)
        => /\ last.ok
           /\ last.res \in {Bool(TRUE), Bool(FALSE)}
           /\ last.res = Bool(TRUE) <=> AllZero(last.l.dim)

\* is_scalar() of Coherent_unit_base<std::ratio<0>, std::ratio<2>> is false.
C16_Witness ==
    /\ last.op = "is_scalar" /\ last.ok
    /\ last.l.dim = <<r0, <<2, 1>>>>
    /\ last.res = Bool(FALSE)

C18_EqualRationals ==
    /\ (last.op \in {"+", "-", "<=>"} /\ SevenExponents(last.l)
          /\ SevenExponents(last.r) /\ ~DimDiffer(last.l.dim, last.r.dim))
           => last.ok
    /\ (last.op \in {"convert_to", "Unit"} /\ last.l.cls = "Unit"
          /\ last.U.fundament /\ ~DimDiffer(last.U.Base, last.l.dim))
           => last.ok

\* The exponent p * q of pow<q>(pow<p>(A)), as written.
ExpProduct(P, Q) == <<P[1] * Q[1], P[2] * Q[2]>>

\* C19: sqrt(u) is accepted when pow<std::ratio<1,2>>(u) is, and is then the
\* value pow<std::ratio<1,2>>(u): every exponent halved, and the base_value
\* the square root of u's.
C19_SqrtIsPowHalf ==
    (last.op = "sqrt" /\ Instance(last.l))
        => /\ last.ok <=> pow_accepts(<<1, 2>>, last.l)
           /\ last.ok
                  => /\ last.res = pow(<<1, 2>>, last.l)
                     /\ \A i \in 1..Len(last.l.dim) :
                            /\ RatProd(last.l.dim[i], <<1, 2>>, last.res.dim[i])
                            /\ Reduced(last.res.dim[i])
                     /\ PowIs(last.l.base_value, <<1, 2>>, last.res.base_value)

\* sqrt(Unit<milli, second>(10)) has dimension time^(1/2) and base_value 1/10.
C19_Witness ==
    /\ last.op = "sqrt" /\ last.ok
    /\ last.l.cls = "Unit" /\ last.l.pf = milli /\ last.l.U.name = "second"
    /\ last.l.value = <<10, 1>>
    /\ last.res.dim = <<<<1, 2>>, r0, r0, r0, r0, r0, r0>>
    /\ last.res.base_value = <<1, 10>>

C21_AddThenSubtract ==
    (/\ prev.op = "+" /\ prev.ok
     /\ last.op = "-" /\ last.ok
     /\ last.l = prev.res /\ last.r = prev.r)
    => /\ last.res.dim = prev.l.dim
       /\ last.res.base_value = prev.l.base_value

\* (Unit<milli, second>(10) + Unit<micro, second>(20000)) - Unit<micro,
\* second>(20000) is 0.01 s.
C21_Witness ==
    /\ prev.op = "+" /\ prev.ok
    /\ last.op = "-" /\ last.ok
    /\ last.l = prev.res /\ last.r = prev.r
    /\ prev.l.cls = "Unit" /\ prev.l.pf = milli /\ prev.l.value = <<10, 1>>
    /\ prev.r.cls = "Unit" /\ prev.r.pf = micro
    /\ last.res.base_value = <<1, 100>>
    /\ last.res.dim = second.Base

\* ---------------------------------------------------------------------- C22

\* The temperature in degrees Celsius of x in the unit called name, by
\* K = C + 273.15 and F = C * 9/5 + 32.
InCelsius(name, x) ==
    CASE name = "kelvin" -> F_sub(x, Num(27315, 100))
      [] name = "degree_Celsius" -> x
      [] name = "degree_Fahrenheit" -> F_mul(F_sub(x, <<32, 1>>), Num(5, 9))

Temperatures == {"kelvin", "degree_Celsius", "degree_Fahrenheit"}

\* The temperature in degrees Celsius that the Unit u stands for.
Temperature(u) == InCelsius(u.U.name, F_mul(u.value, Ten(u.pf)))

\* C22: conversion among kelvin, degree_Celsius and degree_Fahrenheit, at any
\* prefix, follows K = C + 273.15 and F = C * 9/5 + 32: the result stands for
\* the temperature of its source; 0 degree_Celsius is 32 degree_Fahrenheit,
\* 5000 milli-degree_Celsius is 41 degree_Fahrenheit and 5000 millikelvin is
\* -450.67 degree_Fahrenheit.
C22_Temperatures ==
    /\ (/\ last.op \in {"convert_to", "Unit"} /\ last.ok
        /\ last.l.cls = "Unit"
        /\ last.l.U.name \in Temperatures /\ last.U.name \in Temperatures)
       => Temperature(last.res) = Temperature(last.l)
    /\ LET C == Named("degree_Celsius", degree_Celsius)
           K == Named("kelvin", kelvin)
           F == Named("degree_Fahrenheit", degree_Fahrenheit)
       IN  /\ convert_to(no_prefix, F, Unit(no_prefix, C, <<0, 1>>)).value = <<32, 1>>
           /\ Unit_from(no_prefix, F, Unit(no_prefix, C, <<0, 1>>)).value = <<32, 1>>
           /\ convert_to(no_prefix, F, Unit(milli, C, <<5000, 1>>)).value = <<41, 1>>
           /\ convert_to(no_prefix, F, Unit(milli, K, <<5000, 1>>)).value
                  = Num(-45067, 100)

\* Unit<milli, degree_Celsius>(5000) converted to degree_Fahrenheit is 41.
C22_Witness ==
    /\ last.op \in {"convert_to", "Unit"} /\ last.ok
    /\ last.l.cls = "Unit" /\ last.l.U.name = "degree_Celsius"
    /\ last.l.pf = milli /\ last.l.value = <<5000, 1>>
    /\ last.U.name = "degree_Fahrenheit" /\ last.pf = no_prefix
    /\ last.res.value = <<41, 1>>

\* ------------------------------------------------- the fold as a program

\* The packs of the Coherent_unit_base arguments of the fold: those of the
\* tests "binary_op_args" and "binary_op_args_num", those of second and of
\* coulomb, a pack with a ratio that is not reduced, and packs of 0, 1, 2 and
\* 8 ratios.
FoldPacks ==
    {<<<<1, 1>>, <<2, 1>>, <<3, 1>>, <<4, 1>>, <<5, 1>>, <<6, 1>>, <<7, 1>>>>,
     <<<<6, 1>>, <<5, 1>>, <<4, 1>>, <<3, 1>>, <<2, 1>>, <<1, 1>>, <<0, 1>>>>,
     second.Base, coulomb.Base,
     <<<<2, 2>>, r0, r0, r0, r0, r0, r0>>,
     <<>>, <<r1>>, <<r1, <<2, 1>>>>,
     <<r1, r0, r0, r0, r0, r0, r0, r0>>}

\* The operations of the fold of two packs, and of a pack and a ratio.
FoldOps == {"Plus", "Minus"}
FoldNumOps == {"Multiply"}

\* The ratios of binary_op_args_num.
FoldRatios == {<<2, 1>>, <<1, 2>>, <<0, 1>>, <<-1, 1>>}

\* The compiler is about to instantiate the outermost call of a fold.
FoldInit ==
    /\ user = NoUnit /\ a = NoValue /\ last = NoOp /\ prev = NoOp /\ steps = 0
    /\ \/ \E l \in FoldPacks, r \in FoldPacks, op \in FoldOps :
              fold = Fold("binary_op_args", op, l, r, l, r, <<>>, 0, "call")
       \/ \E u \in FoldPacks, r \in FoldRatios, op \in FoldNumOps :
              fold = Fold("binary_op_args_num", op, u, r, u, r, <<>>, 0, "call")

\* The pending call of binary_op_args is instantiated.
FoldArgs ==
    /\ fold.pc = "call" /\ fold.fn = "binary_op_args"
    /\ fold' = binary_op_args_call(fold)
    /\ UNCHANGED <<user, a, last, prev, steps>>

\* The pending call of binary_op_args_num is instantiated.
FoldArgsNum ==
    /\ fold.pc = "call" /\ fold.fn = "binary_op_args_num"
    /\ fold' = binary_op_args_num_call(fold)
    /\ UNCHANGED <<user, a, last, prev, steps>>

FoldNext == FoldArgs \/ FoldArgsNum

SpecFold == FoldInit /\ [][FoldNext]_vars

\* ---------------------------------------------------------------------- C23

\* The ratio C is what the operation op makes of the ratios A and B.
OpIs(op, A, B, C) ==
    /\ Reduced(C)
    /\ CASE op = "Plus" -> RatSum(A, B, C)
         [] op = "Minus" -> RatDiff(A, B, C)
         [] op = "Multiply" -> RatProd(A, B, C)

\* The right-hand argument of the operation at position i of the fold f.
FoldRight(f, i) == IF f.fn = "binary_op_args" THEN f.r0[i] ELSE f.r0

\* C23: the fold of the exponents (binary_op_args for * and /,
\* binary_op_args_num for pow) consumes exactly one position per call and
\* appends op(left_i, right_i) in the order of the positions; for arguments
\* of seven exponents it ends after exactly seven calls with a result of
\* seven exponents; two packs of different sizes are rejected, before any
\* position is consumed.
C23_Fold ==
    /\ fold.pc \in {"call", "returned"}
       => /\ fold.n <= Len(fold.l0)
          /\ Len(fold.lr) = fold.n
          /\ fold.l = SubSeq(fold.l0, fold.n + 1, Len(fold.l0))
          /\ \A i \in 1..fold.n :
                 OpIs(fold.op, fold.l0[i], FoldRight(fold, i), fold.lr[i])
    /\ fold.pc = "returned"
       => /\ fold.n = 7 /\ Len(fold.lr) = 7 /\ Len(fold.l0) = 7
          /\ fold.l = <<>>
          /\ fold.lr = IF fold.fn = "binary_op_args"
                       THEN binary_op_args(fold.l0, fold.r0, <<>>, fold.op)
                       ELSE binary_op_args_num(fold.l0, fold.r0, <<>>, fold.op)
    /\ (/\ fold.pc # "none" /\ Len(fold.l0) = 7
        /\ fold.fn = "binary_op_args" => Len(fold.r0) = 7)
       => /\ fold.pc # "rejected"
          /\ fold.n <= 7
          /\ fold.n = 7 <=> fold.pc = "returned"
    /\ (fold.fn = "binary_op_args" /\ Len(fold.l0) # Len(fold.r0))
       => /\ fold.pc # "returned"
          /\ fold.n = 0 /\ fold.lr = <<>>

\* The fold of the test "binary_op_args" has returned the pack of seven
\* ratios 7 after seven calls.
C23_Witness ==
    /\ fold.pc = "returned" /\ fold.fn = "binary_op_args" /\ fold.op = "Plus"
    /\ fold.l0 = <<<<1, 1>>, <<2, 1>>, <<3, 1>>, <<4, 1>>, <<5, 1>>, <<6, 1>>, <<7, 1>>>>
    /\ fold.r0 = <<<<6, 1>>, <<5, 1>>, <<4, 1>>, <<3, 1>>, <<2, 1>>, <<1, 1>>, <<0, 1>>>>
    /\ fold.n = 7
    /\ fold.lr = <<<<7, 1>>, <<7, 1>>, <<7, 1>>, <<7, 1>>, <<7, 1>>, <<7, 1>>, <<7, 1>>>>

\* ---------------------------------------------------------------------- C24

\* C24: every Unit<prefix, U> value, however it was obtained (from a raw
\* number, by convert_to, by the converting constructor from a Unit or from
\* the result of an operator), has
\* base_value = value * U.base_multiplier * 10^prefix + U.base_adder.
C24_UnitInvariant ==
    /\ a.cls = "Unit" => a.base_value = BaseFor(a.pf, a.U, a.value)
    /\ (last.ok /\ last.res.cls = "Unit")
       => last.res.base_value = BaseFor(last.res.pf, last.res.U, last.res.value)

\* Unit<milli, second>(Unit<milli, second>(10) + Unit<micro, second>(20000))
\* has value 30 and base_value 0.03.
C24_Witness ==
    /\ last.op = "Unit" /\ last.ok /\ last.l.cls = "Coherent_unit"
    /\ prev.op = "+" /\ last.l = prev.res
    /\ last.pf = milli /\ last.U.name = "second"
    /\ a = last.res
    /\ a.value = <<30, 1>> /\ a.base_value = <<3, 100>>

\* ---------------------------------------------------------------------- C25

Operators == {"+", "-", "*", "/", "pow", "sqrt"}

\* The value v has no prefix and no unit of its own: it is a Coherent_unit,
\* whose base_multiplier is 1 and whose base_adder is 0.
IsCoherentValue(v) ==
    /\ v.cls = "Coherent_unit"
    /\ v.U = NoUnit /\ v.pf = no_prefix
    /\ Coherent_unit(v.dim[1], v.dim[2], v.dim[3], v.dim[4], v.dim[5], v.dim[6],
                     v.dim[7]).base_multiplier = <<1, 1>>
    /\ Coherent_unit(v.dim[1], v.dim[2], v.dim[3], v.dim[4], v.dim[5], v.dim[6],
                     v.dim[7]).base_adder = <<0, 1>>

\* C25: after any sequence of +, -, *, /, pow and sqrt on values of the
\* predefined units every result is a coherent value with exactly seven
\* exponents, each reduced and with a denominator > 0, with base_multiplier 1
\* and base_adder 0: the prefix and the unit of an operand are not carried
\* into a result.
C25_Closure ==
    (last.op \in Operators /\ last.ok)
    => /\ Len(last.res.dim) = 7
       /\ \A i \in 1..7 : Reduced(last.res.dim[i])
       /\ IsCoherentValue(last.res)
       /\ a = last.res

\* pow<std::ratio<-1>> of Unit<milli, second>(10) / Unit<milli, ampere>(20):
\* a Coherent_unit of exponents -1 (s) and 1 (A) with base_value 2.
C25_Witness ==
    /\ prev.op = "/" /\ prev.ok /\ prev.l.cls = "Unit" /\ prev.l.pf = milli
    /\ prev.r.cls = "Unit" /\ prev.r.U.name = "ampere"
    /\ last.op = "pow" /\ last.ok /\ last.exp = <<-1, 1>>
    /\ last.l = prev.res
    /\ last.res.cls = "Coherent_unit"
    /\ last.res.dim = <<<<-1, 1>>, r0, r0, r1, r0, r0, r0>>
    /\ last.res.base_value = <<2, 1>>

\* ---------------------------------------------------------------------- C26

IsRadian(v) == v.cls = "Unit" /\ v.U.name = "radian"
IsScalarValue(v) == v.cls = "Coherent_unit" /\ v.dim = scalar.Base

\* C27: named coherent units that share a dimension vector are one and the
\* same type (hertz and becquerel, gray and sievert, candela and lumen,
\* radian, steradian and scalar), so their values can be added, subtracted,
\* compared and converted into each other: a Unit of radian and a scalar add,
\* subtract and compare by their base_values, and the sum converts to radian.
C27_SharedVector ==
    /\ hertz = becquerel /\ gray = sievert /\ candela = lumen
    /\ radian = steradian /\ steradian = scalar
    /\ (last.op \in {"+", "-", "<=>"} /\ IsRadian(last.l) /\ IsScalarValue(last.r))
       => /\ last.ok
          /\ last.op = "+" =>
                 last.res.base_value = F_add(last.l.base_value, last.r.base_value)
          /\ last.op = "-" =>
                 last.res.base_value = F_sub(last.l.base_value, last.r.base_value)
          /\ last.op = "<=>" =>
                 (is_lt(last.res) <=> F_less(last.l.base_value, last.r.base_value))
    /\ (/\ last.op = "Unit" /\ last.U.name = "radian"
        /\ prev.op \in {"+", "-"} /\ IsRadian(prev.l) /\ IsScalarValue(prev.r)
        /\ last.l = prev.res)
       => /\ last.ok
          /\ prev.op = "+" =>
                 F_mul(last.res.value, Ten(last.pf))
                     = F_add(F_mul(prev.l.value, Ten(prev.l.pf)), prev.r.base_value)
          /\ prev.op = "-" =>
                 F_mul(last.res.value, Ten(last.pf))
                     = F_sub(F_mul(prev.l.value, Ten(prev.l.pf)), prev.r.base_value)

\* Unit<no_prefix, radian>(Unit<milli, radian>(5000) + scalar(2)) is 7.
C27_Witness ==
    /\ prev.op = "+" /\ prev.ok
    /\ IsRadian(prev.l) /\ prev.l.pf = milli /\ prev.l.value = <<5000, 1>>
    /\ IsScalarValue(prev.r) /\ prev.r.base_value = <<2, 1>>
    /\ last.op = "Unit" /\ last.ok /\ last.U.name = "radian"
    /\ last.pf = no_prefix /\ last.l = prev.res
    /\ last.res.value = <<7, 1>>

\* ---------------------------------------------------------------------- C28

\* A Unit of degree_Celsius, and the degrees Celsius it holds.
IsCelsius(v) == v.cls = "Unit" /\ v.U.name = "degree_Celsius"
Degrees(v) == F_mul(v.value, Ten(v.pf))

\* C28: + and - combine the base_values, with the offset of each operand
\* included: the sum of two degree_Celsius values of a and b degrees has
\* base_value a + b + 2 * 273.15 and converts back to a + b + 273.15 degrees
\* Celsius; their difference has base_value a - b and converts back to
\* a - b - 273.15 degrees Celsius.
C28_OffsetsIncluded ==
    /\ (last.op \in {"+", "-"} /\ IsCelsius(last.l) /\ IsCelsius(last.r))
       => /\ last.ok
          /\ last.op = "+" =>
                 last.res.base_value
                     = F_add(F_add(Degrees(last.l), Degrees(last.r)), Num(54630, 100))
          /\ last.op = "-" =>
                 last.res.base_value = F_sub(Degrees(last.l), Degrees(last.r))
    /\ (/\ last.op = "Unit" /\ last.U.name = "degree_Celsius"
        /\ prev.op \in {"+", "-"} /\ IsCelsius(prev.l) /\ IsCelsius(prev.r)
        /\ last.l = prev.res)
       => /\ last.ok
          /\ prev.op = "+" =>
                 Degrees(last.res)
                     = F_add(F_add(Degrees(prev.l), Degrees(prev.r)), Num(27315, 100))
          /\ prev.op = "-" =>
                 Degrees(last.res)
                     = F_sub(F_sub(Degrees(prev.l), Degrees(prev.r)), Num(27315, 100))

\* Unit<milli, degree_Celsius>(5000) + Unit<no_prefix, degree_Celsius>(20) has
\* base_value 571.3 and is 298.15 degrees Celsius.
C28_Witness ==
    /\ prev.op = "+" /\ prev.ok
    /\ IsCelsius(prev.l) /\ prev.l.pf = milli /\ prev.l.value = <<5000, 1>>
    /\ IsCelsius(prev.r) /\ prev.r.value = <<20, 1>>
    /\ prev.res.base_value = Num(5713, 10)
    /\ last.op = "Unit" /\ last.ok /\ last.U.name = "degree_Celsius"
    /\ last.pf = no_prefix /\ last.l = prev.res
    /\ last.res.value = Num(29815, 100)

\* ---------------------------------------------------------------------- C29

\* C29: a raw number converts implicitly to a value of any dimension vector
\* (the constructor from TU_TYPE is not explicit), so a comparison of a value
\* with a raw number, such as Unit<milli, second>(10) < 3.0, is accepted and
\* compares the base_value with the number; +, -, * and / between a value
\* and a raw number are rejected.
C29_RawNumbers ==
    /\ (last.op = "<=>" /\ Instance(last.l) /\ last.r.cls = "TU_TYPE")
       => /\ last.ok
          /\ (last.l.base_value # NaN /\ last.r.base_value # NaN)
             => /\ is_lt(last.res) <=> F_less(last.l.base_value, last.r.base_value)
                /\ is_gt(last.res) <=> F_less(last.r.base_value, last.l.base_value)
                /\ is_eq(last.res) <=> last.l.base_value = last.r.base_value
    /\ (last.op \in {"+", "-", "*", "/"} /\ last.r.cls = "TU_TYPE")
       => ~last.ok /\ last.res = NoValue

\* Unit<milli, second>(10) < 3.0: the base_value 0.01 is less than 3, the
\* value 10 is not.
C29_Witness ==
    /\ last.op = "<=>" /\ last.ok
    /\ last.l.cls = "Unit" /\ last.l.pf = milli /\ last.l.U.name = "second"
    /\ last.l.value = <<10, 1>>
    /\ last.r = Raw(<<3, 1>>)
    /\ is_lt(last.res)

\* ---------------------------------------------------------------------- C30

\* The operation rec is a quotient of two values of the same dimension
\* vector, or a power with exponent 0.
Cancels(rec) ==
    /\ rec.ok
    /\ \/ rec.op = "/" /\ ~DimDiffer(rec.l.dim, rec.r.dim)
       \/ rec.op = "pow" /\ rec.exp[1] = 0

\* C30: for values a and b of the same dimension vector, a / b and pow<0>(a)
\* have all seven exponents 0, is_scalar() is true for them, and unop<f> of
\* them is accepted and returns a scalar with base_value f(base_value); the
\* base_value of a / b is a.base_value / b.base_value.
C30_CancelledIsScalar ==
    /\ Cancels(last)
       => /\ Len(last.res.dim) = 7
          /\ \A i \in 1..7 : last.res.dim[i] = <<0, 1>>
          /\ last.op = "/" =>
                 last.res.base_value = F_div(last.l.base_value, last.r.base_value)
    /\ (last.op = "is_scalar" /\ Cancels(prev) /\ last.l = prev.res)
       => last.ok /\ last.res = Bool(TRUE)
    /\ (last.op = "lambda" /\ Cancels(prev) /\ last.l = prev.res)
       => /\ last.ok
          /\ last.res.cls = "Coherent_unit"
          /\ Len(last.res.dim) = 7 /\ AllZero(last.res.dim)
          /\ last.res.base_value = F_add(prev.res.base_value, <<1, 1>>)

\* unop<f>(Unit<milli, second>(10) / Unit<micro, second>(20000)), f adding 1,
\* is a scalar with base_value 0.5 + 1.
C30_Witness ==
    /\ prev.op = "/" /\ prev.ok
    /\ prev.l.cls = "Unit" /\ prev.l.pf = milli /\ prev.l.value = <<10, 1>>
    /\ prev.r.cls = "Unit" /\ prev.r.pf = micro
    /\ prev.res.base_value = <<1, 2>>
    /\ last.op = "lambda" /\ last.ok /\ last.l = prev.res
    /\ last.res.dim = scalar.Base
    /\ last.res.base_value = <<3, 2>>

====
